---- MODULE Spec2Model ----
(***************************************************************************)
(* Model of src/main.py: the /generate-image endpoint and the              *)
(* LeonardoImageGenerator it drives (submit -> poll -> fetch -> upload).   *)
(*                                                                         *)
(* One request handling is a thread of control with a program counter.     *)
(* Every outbound call (provider POST, provider GET, image GET, store      *)
(* write, store make-public) and every sleep is one step; the code that    *)
(* runs between two such calls is part of the step that follows the call.  *)
(* The provider, the image host, the store and the HTTP framework are the  *)
(* environment: their answers are drawn from small sets.                   *)
(*                                                                         *)
(* Python values: a dict is a function from its keys (a record whose       *)
(* DOMAIN is the dict's key set); None in a string position is the         *)
(* constant None; a JSON null / JSON array where the code expects an       *)
(* object are the marker records NullJson / ArrayJson.                     *)
(***************************************************************************)
EXTENDS Integers, Sequences, FiniteSets, TLC

VARIABLES
    pc,         \* pc[r]: position of request r's handling
    req,        \* req[r]: the HTTP request as received (content kind and JSON body)
    loc,        \* loc[r]: the handler's local variables
    calls,      \* calls[r]: how many outbound calls / sleeps r has made, per kind
    obs,        \* obs[r]: what happened so far in r's handling (history)
    responses,  \* responses[r]: the HTTP responses sent for r, in order
    bucket,     \* the object store: blob name -> blob
    wire        \* one outbound call seen at the transport: its attempts so far

vars == <<pc, req, loc, calls, obs, responses, bucket, wire>>

Requests == {1, 2}

-----------------------------------------------------------------------------
(* Program constants *)

MAX_RETRY_ATTEMPTS == 3
MAX_GENERATION_ATTEMPTS == 10
GENERATION_WAIT_TIME == 10
MODEL_ID == "458ecfff-f76c-402c-8b85-f09f6fb198de"
DEFAULT_WIDTH == 896
DEFAULT_HEIGHT == 1192
MAX_WIDTH == 900
MAX_HEIGHT == 1536
GCP_FOLDER_NAME == "images/"
GCP_BUCKET_NAME == "bucket"

PROMPT_SUFFIX ==
    ", ultra-photorealistic, cinematic lighting, high detail, natural textures, no distortions, no artifacts, no woman, no person, no people, no men, no man"
NEGATIVE_PROMPT ==
    "blurry, distorted, unnatural anatomy, low resolution, artifacts, unrealistic, low quality, text, watermark, distorted "

MSG_PROMPT_REQUIRED == "A prompt is required"
MSG_GENERATION_FAILED == "Image generation failed"
MSG_UPLOAD_FAILED == "Image upload failed"
MSG_UNEXPECTED == "Unexpected server error"

-----------------------------------------------------------------------------
(* Python values *)

None == "<None>"
EmptyDict == [k \in {} |-> TRUE]
NullJson == [json_null |-> TRUE]
ArrayJson == [json_array |-> TRUE]

IsDict(v) == v \notin {NullJson, ArrayJson}

\* dict.get(key, default)
Get(d, k, default) == IF k \in DOMAIN d THEN d[k] ELSE default

Min(a, b) == IF a < b THEN a ELSE b

-----------------------------------------------------------------------------
(* Bounds and input alphabets *)

MaxImages == 2

Prompts == {"", "a red barn"}
RequestedWidths == {5, 900, 5000}
RequestedHeights == {1536, 3000}
GenerationIds == {"gen-1", "gen-2"}
ImageUrls == {"", "https://cdn.example/img.jpg"}
ImageContents == {"", "JPEGDATA"}
Timestamps == {"20240101_120000", "20240101_120001"}
HexSuffixes == {"0a1b2c3d", "ffffffff"}
HttpCodes == {200, 404, 503}

\* JSON bodies of POST /generate-image
RequestData ==
    {EmptyDict}
    \cup [width : RequestedWidths]
    \cup [prompt : Prompts]
    \cup [prompt : {"a red barn"}, width : RequestedWidths]
    \cup [prompt : {"a red barn"}, height : RequestedHeights]
    \cup [prompt : {"a red barn"}, width : {5000}, height : {3000}]

\* what arrives: no body at all, the JSON literal null, or a JSON object
HttpRequests ==
    {[content |-> "missing"], [content |-> "null"]}
    \cup {[content |-> "object", data |-> d] : d \in RequestData}

\* provider answers to the submission POST
SubmitBodies ==
    {ArrayJson, EmptyDict,
     [sdGenerationJob |-> NullJson],
     [sdGenerationJob |-> EmptyDict],
     [sdGenerationJob |-> [generationId |-> ""]]}
    \cup {[sdGenerationJob |-> [generationId |-> g]] : g \in GenerationIds}

\* image descriptors
Descriptors ==
    {EmptyDict}
    \cup [nsfw : BOOLEAN]
    \cup [url : ImageUrls]
    \cup [nsfw : BOOLEAN, url : ImageUrls]

OtherDescriptors ==
    {[nsfw |-> FALSE, url |-> "https://cdn.example/img.jpg"],
     [nsfw |-> TRUE, url |-> "https://cdn.example/img.jpg"]}

\* generated_images lists: any first descriptor, then up to MaxImages - 1 more
RECURSIVE Tails(_)
Tails(n) ==
    IF n = 0 THEN {<<>>}
    ELSE Tails(n - 1) \cup {Append(t, d) : t \in Tails(n - 1), d \in OtherDescriptors}

ImageLists ==
    {<<>>} \cup {<<d>> \o t : d \in Descriptors, t \in Tails(MaxImages - 1)}

Statuses == {"PENDING", "FAILED", "COMPLETE"}

GenerationRecords ==
    {EmptyDict}
    \cup [status : Statuses]
    \cup [status : {"PENDING"}, generated_images : {<<>>}]
    \cup [status : {"COMPLETE"}, generated_images : ImageLists]

StatusBodies ==
    {ArrayJson, EmptyDict, [generations_by_pk |-> NullJson]}
    \cup {[generations_by_pk |-> g] : g \in GenerationRecords}

\* an answer of the HTTP session: a transport failure, or a status code with a body
HttpResponses(bodies) ==
    {[net |-> "error"]}
    \cup {[net |-> "ok", code |-> c, body |-> EmptyDict] : c \in HttpCodes \ {200}}
    \cup {[net |-> "ok", code |-> 200, body |-> b] : b \in bodies}

-----------------------------------------------------------------------------
(* Pure pieces of the code *)

Raise(e) == [kind |-> "raise", exc |-> e]

\* truth value of a dict-or-None (`not data`, `not generated_image`)
Falsy(v) == v \in {NullJson, EmptyDict}

\* truth value of a str-or-None (`not generation_id`, `not image_url`, `not image_bytes`)
FalsyStr(s) == s \in {None, ""}

\* response.raise_for_status()
RaisesForStatus(code) == code >= 400 /\ code < 600

\* request.json: the parsed body.  With no body the framework either hands
\* back None (no JSON content type, older framework) or raises a 4xx error
\* inside the handler's try block.
RequestJson(request) ==
    CASE request.content = "missing" ->
            {[raised |-> TRUE], [raised |-> FALSE, data |-> NullJson]}
      [] request.content = "null" -> {[raised |-> FALSE, data |-> NullJson]}
      [] request.content = "object" -> {[raised |-> FALSE, data |-> request.data]}

\* `not data or 'prompt' not in data`
PromptMissing(data) == Falsy(data) \/ "prompt" \notin DOMAIN data

ClampWidth_Unclamped(data) == Get(data, "width", DEFAULT_WIDTH)
ClampWidth(data) == Min(Get(data, "width", DEFAULT_WIDTH), MAX_WIDTH)
ClampHeight(data) == Min(Get(data, "height", DEFAULT_HEIGHT), MAX_HEIGHT)

FullPrompt(prompt) == prompt \o PROMPT_SUFFIX

BuildPayload(prompt, width, height) ==
    [prompt |-> FullPrompt(prompt),
     negative_prompt |-> NEGATIVE_PROMPT,
     height |-> height,
     width |-> width,
     num_images |-> 1,
     modelId |-> MODEL_ID]

\* `if not generation_id` decides between "return None" and polling
HasGenerationId_Unchecked(generation_id) == TRUE
HasGenerationId(generation_id) == ~FalsyStr(generation_id)

\* generate_image, from the POST to the decision to poll
SubmitOutcome(resp) ==
    IF resp.net = "error" THEN Raise("RequestException")
    ELSE IF RaisesForStatus(resp.code) THEN Raise("RequestException")
    ELSE IF ~IsDict(resp.body) THEN Raise("AttributeError")
    ELSE LET job == Get(resp.body, "sdGenerationJob", EmptyDict) IN
         IF ~IsDict(job) THEN Raise("AttributeError")
         ELSE LET generation_id == Get(job, "generationId", None) IN
              IF ~HasGenerationId(generation_id) THEN [kind |-> "return_none"]
              ELSE [kind |-> "poll", generation_id |-> generation_id]

\* `except requests.RequestException` of generate_image
GenerateCatches(exc) == exc = "RequestException"

\* `for attempt in range(MAX_GENERATION_ATTEMPTS)`: is there an iteration `attempt`
LoopHasIteration_OneShort(attempt) == attempt + 1 < MAX_GENERATION_ATTEMPTS
LoopHasIteration(attempt) == attempt < MAX_GENERATION_ATTEMPTS

\* time.sleep(GENERATION_WAIT_TIME) at the top of iteration `attempt`
SleepSeconds_Backoff(attempt) == GENERATION_WAIT_TIME * (attempt + 1)
SleepSeconds(attempt) == GENERATION_WAIT_TIME

\* `if image_data.get('nsfw', False)`
IsNsfw_Ignored(image_data) == FALSE
IsNsfw(image_data) == Get(image_data, "nsfw", FALSE)

\* `if not image_url`
HasImageUrl_Unchecked(image_url) == TRUE
HasImageUrl(image_url) == ~FalsyStr(image_url)

\* one iteration of _poll_generation_status, from the status GET to the
\* decision to download
PollOutcome(resp) ==
    IF resp.net = "error" THEN Raise("RequestException")
    ELSE IF RaisesForStatus(resp.code) THEN Raise("RequestException")
    ELSE IF ~IsDict(resp.body) THEN Raise("AttributeError")
    ELSE LET result_data == Get(resp.body, "generations_by_pk", EmptyDict) IN
         IF ~IsDict(result_data) THEN Raise("AttributeError")
         ELSE IF Get(result_data, "status", None) # "COMPLETE"
              THEN [kind |-> "continue"]
         ELSE LET images == Get(result_data, "generated_images", <<EmptyDict>>) IN
              IF Len(images) = 0 THEN Raise("IndexError")
              ELSE LET image_data == images[1] IN
                   IF IsNsfw(image_data)
                   THEN [kind |-> "return_none", why |-> "nsfw"]
                   ELSE LET image_url == Get(image_data, "url", None) IN
                        IF ~HasImageUrl(image_url)
                        THEN [kind |-> "return_none", why |-> "nourl"]
                        ELSE [kind |-> "fetch", image_url |-> image_url,
                              result_data |-> result_data]

\* the download: session.get(image_url), raise_for_status, attach the bytes
FetchOutcome_NoBytes(resp, result_data) ==
    IF resp.net = "error" THEN Raise("RequestException")
    ELSE IF RaisesForStatus(resp.code) THEN Raise("RequestException")
    ELSE [kind |-> "return", result |-> result_data]
FetchOutcome_NoReturn(resp, result_data) == Raise("RequestException")
FetchOutcome(resp, result_data) ==
    IF resp.net = "error" THEN Raise("RequestException")
    ELSE IF RaisesForStatus(resp.code) THEN Raise("RequestException")
    ELSE [kind |-> "return",
          result |-> [k \in DOMAIN result_data \cup {"image_bytes"} |->
                        IF k = "image_bytes" THEN resp.body ELSE result_data[k]]]

\* `except requests.RequestException` inside the polling loop
PollCatches_Nothing(exc) == FALSE
PollCatches(exc) == exc = "RequestException"

\* upload_to_gcs up to the store write: the bytes check and the object name
ImageId_NoSuffix(timestamp, hex) == timestamp \o ".jpg"
ImageId(timestamp, hex) == timestamp \o "_" \o hex \o ".jpg"
BlobName(image_id) == GCP_FOLDER_NAME \o image_id
HasImageBytes_Unchecked(image_data) == TRUE
HasImageBytes(image_data) == ~FalsyStr(Get(image_data, "image_bytes", None))
UPLOAD_CONTENT_TYPE_Omitted == "text/plain"
UPLOAD_CONTENT_TYPE == "image/jpeg"
PublicUrl(blob_name) ==
    "https://storage.googleapis.com/" \o GCP_BUCKET_NAME \o "/" \o blob_name

BlobNames == {BlobName(ImageId(t, h)) : t \in Timestamps, h \in HexSuffixes}
NoBlob == [exists |-> FALSE]

\* jsonify bodies of the endpoint
JsonifyError_WithJob(msg) == [error |-> msg, generation_id |-> "gen-1"]
JsonifyError(msg) == [error |-> msg]
JsonifySuccess(prompt, image_url) ==
    [success |-> TRUE, prompt |-> prompt, image_url |-> image_url]

\* `if not generated_image` / `if not image_url` of the endpoint
GenerationFailed_Never(generated_image) == FALSE
GenerationFailed(generated_image) == Falsy(generated_image)
UploadFailed(image_url) == FalsyStr(image_url)

-----------------------------------------------------------------------------
(* What the environment answered, in the words of the specification.  These *)
(* classify the answers themselves and do not depend on what the code does  *)
(* with them.                                                               *)

HttpFailed(resp) == resp.net = "error" \/ resp.code \notin 200..399

\* the job identifier a submission answer carries, if any
AnswerJobId(resp) ==
    IF HttpFailed(resp) THEN None
    ELSE IF resp.body = ArrayJson THEN None
    ELSE IF "sdGenerationJob" \notin DOMAIN resp.body THEN None
    ELSE IF resp.body.sdGenerationJob = NullJson THEN None
    ELSE IF "generationId" \notin DOMAIN resp.body.sdGenerationJob THEN None
    ELSE IF resp.body.sdGenerationJob.generationId = "" THEN None
    ELSE resp.body.sdGenerationJob.generationId

\* the submission answer: "error", "malformed" (no JSON object where one is
\* needed), "noid" (no usable job identifier), "id"
SubmitAnswer(resp) ==
    IF HttpFailed(resp) THEN "error"
    ELSE IF resp.body = ArrayJson THEN "malformed"
    ELSE IF "sdGenerationJob" \notin DOMAIN resp.body THEN "noid"
    ELSE IF resp.body.sdGenerationJob = NullJson THEN "malformed"
    ELSE IF "generationId" \notin DOMAIN resp.body.sdGenerationJob THEN "noid"
    ELSE IF resp.body.sdGenerationJob.generationId = "" THEN "noid"
    ELSE "id"

\* the status answer: "error"; "malformed"; "open" (a status other than
\* COMPLETE, or none); and for COMPLETE: "nolist" (no generated_images key),
\* "empty" (an empty list), "unsafe" (first descriptor flagged nsfw), "nourl"
\* (first descriptor safe, URL absent or empty), "ready" (safe, with a URL)
StatusAnswer(resp) ==
    IF HttpFailed(resp) THEN "error"
    ELSE IF resp.body = ArrayJson THEN "malformed"
    ELSE IF "generations_by_pk" \notin DOMAIN resp.body THEN "open"
    ELSE LET g == resp.body.generations_by_pk IN
         IF g = NullJson THEN "malformed"
         ELSE IF "status" \notin DOMAIN g THEN "open"
         ELSE IF g.status # "COMPLETE" THEN "open"
         ELSE IF "generated_images" \notin DOMAIN g THEN "nolist"
         ELSE IF g.generated_images = <<>> THEN "empty"
         ELSE LET d == g.generated_images[1] IN
              IF "nsfw" \in DOMAIN d /\ d.nsfw THEN "unsafe"
              ELSE IF "url" \notin DOMAIN d THEN "nourl"
              ELSE IF d.url = "" THEN "nourl"
              ELSE "ready"

OpenAnswers == {"error", "open"}
CompleteAnswers == {"nolist", "empty", "unsafe", "nourl", "ready"}

-----------------------------------------------------------------------------
(* State *)

Unset == [unset |-> TRUE]

LocInit ==
    [prompt |-> None, width |-> 0, height |-> 0,
     generation_id |-> None, attempt |-> 0,
     image_url |-> None, result_data |-> Unset,
     generated_image |-> Unset,
     blob_name |-> None, public_url |-> None]

CallsInit ==
    [submit |-> 0, sleep |-> 0, slept |-> 0, status |-> 0, fetch |-> 0,
     upload |-> 0, write |-> 0, make_public |-> 0]

\* json: what the endpoint made of the request body; payload: the payload
\* of the submission; submit: SubmitAnswer of the submission's answer;
\* lastCheck: StatusAnswer of the latest status check; allChecksOpen: every
\* status answer so far was in OpenAnswers; everComplete: some status answer
\* was in CompleteAnswers; everReady: some status answer was "ready";
\* fetchOk: an image GET was answered with success;
\* statusAfterFetch: a status check was made after an image GET;
\* generated / uploaded: what generate_image / upload_to_gcs handed back;
\* jobId: the job identifier in the submission's answer; polled: the job
\* identifier of the latest status GET; checkFailed: some status check was
\* answered "error"; stamp / suffix: the timestamp and the random suffix of
\* the object this handling wrote
ObsInit ==
    [json |-> "unset", payload |-> EmptyDict, submit |-> "unset",
     jobId |-> None, polled |-> None, checkFailed |-> FALSE,
     stamp |-> None, suffix |-> None,
     lastCheck |-> "none", allChecksOpen |-> TRUE, everComplete |-> FALSE,
     everReady |-> FALSE, fetchOk |-> FALSE, statusAfterFetch |-> FALSE,
     generated |-> "unset", uploaded |-> "unset"]

\* no outbound call is being watched at the transport
NoCall == [kind |-> "none"]

\* a single request is being handled; the other one never arrives
Init ==
    /\ \E q \in HttpRequests :
          req = [r \in Requests |-> IF r = 1 THEN q ELSE [content |-> "none"]]
    /\ pc = [r \in Requests |-> IF r = 1 THEN "recv" ELSE "idle"]
    /\ loc = [r \in Requests |-> LocInit]
    /\ calls = [r \in Requests |-> CallsInit]
    /\ obs = [r \in Requests |-> ObsInit]
    /\ responses = [r \in Requests |-> <<>>]
    /\ bucket = [n \in BlobNames |-> NoBlob]
    /\ wire = NoCall

-----------------------------------------------------------------------------
(* The endpoint's return statements *)

\* `return jsonify(...), status`: the response goes out and the handling ends
Reply(r, status, body) ==
    /\ responses' = [responses EXCEPT ![r] = Append(@, [status |-> status, body |-> body])]
    /\ pc' = [pc EXCEPT ![r] = "done"]

\* generate_image handed `generated_image` back to the endpoint
GenerateReturns(r, generated_image) ==
    IF GenerationFailed(generated_image)
    THEN Reply(r, 500, JsonifyError(MSG_GENERATION_FAILED))
    ELSE /\ pc' = [pc EXCEPT ![r] = "upload"]
         /\ UNCHANGED responses

\* an exception left generate_image: the endpoint's `except Exception`
EndpointCatches(r) == Reply(r, 500, JsonifyError(MSG_UNEXPECTED))

\* upload_to_gcs handed `image_url` back to the endpoint
UploadReturns(r, image_url) ==
    IF UploadFailed(image_url)
    THEN Reply(r, 500, JsonifyError(MSG_UPLOAD_FAILED))
    ELSE Reply(r, 200, JsonifySuccess(loc[r].prompt, image_url))

-----------------------------------------------------------------------------
(* Steps of one request handling *)

\* generate_image_endpoint, up to the call of generate_image
Receive(r) ==
    /\ pc[r] = "recv"
    /\ \E j \in RequestJson(req[r]) :
          IF j.raised
          THEN /\ EndpointCatches(r)
               /\ obs' = [obs EXCEPT ![r].json = "raised"]
               /\ UNCHANGED loc
          ELSE IF PromptMissing(j.data)
          THEN /\ Reply(r, 400, JsonifyError(MSG_PROMPT_REQUIRED))
               /\ obs' = [obs EXCEPT ![r].json = "noprompt"]
               /\ UNCHANGED loc
          ELSE /\ loc' = [loc EXCEPT ![r].prompt = j.data.prompt,
                                     ![r].width = ClampWidth(j.data),
                                     ![r].height = ClampHeight(j.data)]
               /\ obs' = [obs EXCEPT ![r].json = "prompt"]
               /\ pc' = [pc EXCEPT ![r] = "submit"]
               /\ UNCHANGED responses
    /\ UNCHANGED <<req, calls, bucket, wire>>

\* generate_image: build the payload, POST it, read the job identifier
\* (`answers`: what the provider may answer)
SubmitOn(r, answers) ==
    /\ pc[r] = "submit"
    /\ LET payload == BuildPayload(loc[r].prompt, loc[r].width, loc[r].height) IN
       \E resp \in answers :
          LET out == SubmitOutcome(resp)
              seen == [obs EXCEPT ![r].payload = payload,
                                  ![r].submit = SubmitAnswer(resp),
                                  ![r].jobId = AnswerJobId(resp)]
          IN
          /\ calls' = [calls EXCEPT ![r].submit = @ + 1]
          /\ CASE out.kind = "poll" ->
                    /\ loc' = [loc EXCEPT ![r].generation_id = out.generation_id,
                                          ![r].attempt = 0]
                    /\ obs' = seen
                    /\ pc' = [pc EXCEPT ![r] = "sleep"]
                    /\ UNCHANGED responses
               [] out.kind = "return_none" ->
                    /\ obs' = [seen EXCEPT ![r].generated = "None"]
                    /\ GenerateReturns(r, NullJson)
                    /\ UNCHANGED loc
               [] out.kind = "raise" /\ GenerateCatches(out.exc) ->
                    /\ obs' = [seen EXCEPT ![r].generated = "None"]
                    /\ GenerateReturns(r, NullJson)
                    /\ UNCHANGED loc
               [] out.kind = "raise" /\ ~GenerateCatches(out.exc) ->
                    /\ obs' = [seen EXCEPT ![r].generated = "raised"]
                    /\ EndpointCatches(r)
                    /\ UNCHANGED loc
    /\ UNCHANGED <<req, bucket, wire>>

\* what the provider may answer to the submission POST
ProviderSubmitAnswers == HttpResponses(SubmitBodies)

Submit(r) == SubmitOn(r, ProviderSubmitAnswers)

\* top of a loop iteration: time.sleep(GENERATION_WAIT_TIME)
Sleep(r) ==
    /\ pc[r] = "sleep"
    /\ LoopHasIteration(loc[r].attempt)
    /\ calls' = [calls EXCEPT ![r].sleep = @ + 1,
                              ![r].slept = @ + SleepSeconds(loc[r].attempt)]
    /\ pc' = [pc EXCEPT ![r] = "status"]
    /\ UNCHANGED <<req, loc, obs, responses, bucket, wire>>

\* iteration `attempt` is over without a return: the next iteration starts,
\* or the loop is exhausted and _poll_generation_status returns None.
\* (response, result_data, image_data and image_url are assigned afresh in
\* every iteration before they are read: the stale values are dropped here.)
NextIteration(r, newObs) ==
    /\ loc' = [loc EXCEPT ![r].attempt = @ + 1,
                          ![r].image_url = None,
                          ![r].result_data = Unset]
    /\ IF LoopHasIteration(loc[r].attempt + 1)
       THEN /\ obs' = newObs
            /\ pc' = [pc EXCEPT ![r] = "sleep"]
            /\ UNCHANGED responses
       ELSE /\ obs' = [newObs EXCEPT ![r].generated = "None"]
            /\ GenerateReturns(r, NullJson)

\* the job identifier in status_url
StatusUrlId_Shared(r) == loc[1].generation_id
StatusUrlId(r) == loc[r].generation_id

\* the status GET of an iteration and what the loop body does with the answer
\* (`answers`: what the provider may answer)
CheckStatusOn(r, answers) ==
    /\ pc[r] = "status"
    /\ \E resp \in answers :
          LET out == PollOutcome(resp)
              answer == StatusAnswer(resp)
              seen == [obs EXCEPT ![r].lastCheck = answer,
                                  ![r].polled = StatusUrlId(r),
                                  ![r].checkFailed = @ \/ answer = "error",
                                  ![r].allChecksOpen = @ /\ answer \in OpenAnswers,
                                  ![r].everComplete = @ \/ answer \in CompleteAnswers,
                                  ![r].everReady = @ \/ answer = "ready",
                                  ![r].statusAfterFetch = @ \/ calls[r].fetch > 0]
          IN
          /\ calls' = [calls EXCEPT ![r].status = @ + 1]
          /\ CASE out.kind = "continue" ->
                    NextIteration(r, seen)
               [] out.kind = "raise" /\ PollCatches(out.exc) ->
                    NextIteration(r, seen)
               [] out.kind = "raise" /\ ~PollCatches(out.exc) ->
                    /\ obs' = [seen EXCEPT ![r].generated = "raised"]
                    /\ EndpointCatches(r)
                    /\ UNCHANGED loc
               [] out.kind = "return_none" ->
                    /\ obs' = [seen EXCEPT ![r].generated = "None"]
                    /\ GenerateReturns(r, NullJson)
                    /\ UNCHANGED loc
               [] out.kind = "fetch" ->
                    /\ obs' = seen
                    /\ loc' = [loc EXCEPT ![r].image_url = out.image_url,
                                          ![r].result_data = out.result_data]
                    /\ pc' = [pc EXCEPT ![r] = "fetch"]
                    /\ UNCHANGED responses
    /\ UNCHANGED <<req, bucket, wire>>

\* what the provider may answer to a status GET
ProviderStatusAnswers == HttpResponses(StatusBodies)

CheckStatus(r) == CheckStatusOn(r, ProviderStatusAnswers)

\* the image GET of an iteration whose status check led to a download
\* (`answers`: what the image host may answer)
FetchImageOn(r, answers) ==
    /\ pc[r] = "fetch"
    /\ \E resp \in answers :
          LET out == FetchOutcome(resp, loc[r].result_data)
              seen == [obs EXCEPT ![r].fetchOk = @ \/ ~HttpFailed(resp)]
          IN
          /\ calls' = [calls EXCEPT ![r].fetch = @ + 1]
          /\ CASE out.kind = "return" ->
                    /\ loc' = [loc EXCEPT ![r].generated_image = out.result]
                    /\ obs' = [seen EXCEPT ![r].generated = "result"]
                    /\ GenerateReturns(r, out.result)
               [] out.kind = "raise" /\ PollCatches(out.exc) ->
                    NextIteration(r, seen)
               [] out.kind = "raise" /\ ~PollCatches(out.exc) ->
                    /\ obs' = [seen EXCEPT ![r].generated = "raised"]
                    /\ EndpointCatches(r)
                    /\ UNCHANGED loc
    /\ UNCHANGED <<req, bucket, wire>>

\* what the image host may answer to the image GET
ImageHostAnswers == HttpResponses(ImageContents)

FetchImage(r) == FetchImageOn(r, ImageHostAnswers)

\* upload_to_gcs up to and including blob.upload_from_string
UploadFromString(r) ==
    /\ pc[r] = "upload"
    /\ IF ~HasImageBytes(loc[r].generated_image)
       THEN \* ValueError("No image bytes found"), caught: return None
            /\ calls' = [calls EXCEPT ![r].upload = @ + 1]
            /\ obs' = [obs EXCEPT ![r].uploaded = "None"]
            /\ UploadReturns(r, None)
            /\ UNCHANGED <<loc, bucket>>
       ELSE \E t \in Timestamps, h \in HexSuffixes, ok \in BOOLEAN :
            LET blob_name == BlobName(ImageId(t, h)) IN
            /\ calls' = [calls EXCEPT ![r].upload = @ + 1, ![r].write = @ + 1]
            /\ IF ok
               THEN /\ bucket' = [bucket EXCEPT ![blob_name] =
                                    [exists |-> TRUE,
                                     data |-> loc[r].generated_image.image_bytes,
                                     content_type |-> UPLOAD_CONTENT_TYPE,
                                     public |-> FALSE,
                                     writer |-> r]]
                    /\ loc' = [loc EXCEPT ![r].blob_name = blob_name]
                    /\ obs' = [obs EXCEPT ![r].stamp = t, ![r].suffix = h]
                    /\ pc' = [pc EXCEPT ![r] = "publish"]
                    /\ UNCHANGED responses
               ELSE /\ obs' = [obs EXCEPT ![r].uploaded = "None"]
                    /\ UploadReturns(r, None)
                    /\ UNCHANGED <<loc, bucket>>
    /\ UNCHANGED <<req, wire>>

\* blob.make_public(), return blob.public_url, and the endpoint's answer
MakePublic(r) ==
    /\ pc[r] = "publish"
    /\ \E ok \in BOOLEAN :
          /\ calls' = [calls EXCEPT ![r].make_public = @ + 1]
          /\ IF ok
             THEN LET image_url == PublicUrl(loc[r].blob_name) IN
                  /\ bucket' = [bucket EXCEPT ![loc[r].blob_name].public = TRUE]
                  /\ loc' = [loc EXCEPT ![r].public_url = image_url]
                  /\ obs' = [obs EXCEPT ![r].uploaded = "url"]
                  /\ UploadReturns(r, image_url)
             ELSE /\ obs' = [obs EXCEPT ![r].uploaded = "None"]
                  /\ UploadReturns(r, None)
                  /\ UNCHANGED <<loc, bucket>>
    /\ UNCHANGED <<req, wire>>

Next ==
    \E r \in Requests :
        \/ Receive(r)
        \/ Submit(r)
        \/ Sleep(r)
        \/ CheckStatus(r)
        \/ FetchImage(r)
        \/ UploadFromString(r)
        \/ MakePublic(r)

Spec == Init /\ [][Next]_vars

-----------------------------------------------------------------------------
(* Two handlings at once: the endpoint serves two requests that share the   *)
(* one image_generator object and the one bucket, their steps interleaved   *)
(* in any order. The provider gives every job its own identifier.           *)

ConcPrompt(r) == IF r = 1 THEN "a red barn" ELSE "a blue door"

InitConc ==
    /\ req = [r \in Requests |->
                [content |-> "object", data |-> [prompt |-> ConcPrompt(r)]]]
    /\ pc = [r \in Requests |-> "recv"]
    /\ loc = [r \in Requests |-> LocInit]
    /\ calls = [r \in Requests |-> CallsInit]
    /\ obs = [r \in Requests |-> ObsInit]
    /\ responses = [r \in Requests |-> <<>>]
    /\ bucket = [n \in BlobNames |-> NoBlob]
    /\ wire = NoCall

\* identifiers the provider has not given to another request's job
FreshIds(r) == GenerationIds \ {obs[q].jobId : q \in Requests \ {r}}

ConcSubmitAnswers(r) ==
    {[net |-> "error"]}
    \cup {[net |-> "ok", code |-> 200,
           body |-> [sdGenerationJob |-> [generationId |-> g]]] : g \in FreshIds(r)}

ConcDescriptors ==
    {[nsfw |-> FALSE, url |-> "https://cdn.example/img.jpg"],
     [nsfw |-> TRUE, url |-> "https://cdn.example/img.jpg"]}

ConcStatusAnswers ==
    {[net |-> "ok", code |-> 200,
      body |-> [generations_by_pk |-> [status |-> "PENDING"]]]}
    \cup {[net |-> "ok", code |-> 200,
           body |-> [generations_by_pk |->
                       [status |-> "COMPLETE", generated_images |-> <<d>>]]] :
            d \in ConcDescriptors}

ConcImageAnswers == {[net |-> "ok", code |-> 200, body |-> "JPEGDATA"]}

NextConc ==
    \E r \in Requests :
        \/ Receive(r)
        \/ SubmitOn(r, ConcSubmitAnswers(r))
        \/ Sleep(r)
        \/ CheckStatusOn(r, ConcStatusAnswers)
        \/ FetchImageOn(r, ConcImageAnswers)
        \/ UploadFromString(r)
        \/ MakePublic(r)

SpecConc == InitConc /\ [][NextConc]_vars

-----------------------------------------------------------------------------
(* The transport under one outbound call: the attempts the session's        *)
(* adapter makes before the call returns to, or raises in, the orchestrator *)

\* Retry(total=MAX_RETRY_ATTEMPTS, ...): the number of retries allowed
RETRY_TOTAL == MAX_RETRY_ATTEMPTS

\* Retry(status_forcelist=[500, 502, 503, 504])
STATUS_FORCELIST == {500, 502, 503, 504}

\* Retry(...) is given no allowed_methods: the methods retried on a read
\* error or on a status of the forcelist are urllib3's default, without POST
ALLOWED_METHODS_WithPost == {"HEAD", "GET", "PUT", "DELETE", "OPTIONS", "TRACE", "POST"}
ALLOWED_METHODS == {"HEAD", "GET", "PUT", "DELETE", "OPTIONS", "TRACE"}

\* session.mount("https://", adapter): other URLs keep the session's default
\* adapter, which retries nothing
AdapterRetries(scheme) == IF scheme = "https" THEN RETRY_TOTAL ELSE 0
AdapterForcelist(scheme) == IF scheme = "https" THEN STATUS_FORCELIST ELSE {}

\* how often the storage client may try a store call: its own affair
MaxStoreAttempts == 4

\* the outbound calls of a handling: which client carries them, with which
\* method, to which kind of URL (the image URL is the provider's choice)
OutboundCalls ==
    {[kind |-> "submit", via |-> "session", method |-> "POST", scheme |-> "https"],
     [kind |-> "status", via |-> "session", method |-> "GET", scheme |-> "https"],
     [kind |-> "fetch", via |-> "session", method |-> "GET", scheme |-> "https"],
     [kind |-> "fetch", via |-> "session", method |-> "GET", scheme |-> "http"],
     [kind |-> "store", via |-> "storage_client", method |-> "POST", scheme |-> "https"]}

\* what one attempt on the wire meets
RawCodes == {200, 404, 500, 502, 503, 504}
RawAnswers ==
    {[net |-> "connect_error"], [net |-> "read_error"]}
    \cup {[net |-> "ok", code |-> c] : c \in RawCodes}

\* does the adapter's Retry object count this answer as retryable
IsRetry(method, scheme, answer) ==
    CASE answer.net = "connect_error" -> TRUE
      [] answer.net = "read_error" ->
            scheme = "https" /\ method \in ALLOWED_METHODS
      [] answer.net = "ok" ->
            method \in ALLOWED_METHODS /\ answer.code \in AdapterForcelist(scheme)

OpenCall(c) ==
    [kind |-> c.kind, via |-> c.via, method |-> c.method, scheme |-> c.scheme,
     total |-> IF c.via = "session" THEN AdapterRetries(c.scheme) ELSE 0,
     history |-> <<>>, state |-> "open"]

InitTransport ==
    /\ req = [r \in Requests |-> [content |-> "none"]]
    /\ pc = [r \in Requests |-> "idle"]
    /\ loc = [r \in Requests |-> LocInit]
    /\ calls = [r \in Requests |-> CallsInit]
    /\ obs = [r \in Requests |-> ObsInit]
    /\ responses = [r \in Requests |-> <<>>]
    /\ bucket = [n \in BlobNames |-> NoBlob]
    /\ wire \in {OpenCall(c) : c \in OutboundCalls}

\* one attempt of a session call: the adapter retries it, hands the response
\* to the caller, or raises
SessionAttempt ==
    /\ wire.via = "session"
    /\ wire.state = "open"
    /\ \E answer \in RawAnswers :
          LET tried == [wire EXCEPT !.history = Append(@, answer)] IN
          wire' = IF IsRetry(wire.method, wire.scheme, answer)
                  THEN IF wire.total > 0
                       THEN [tried EXCEPT !.total = @ - 1]
                       ELSE [tried EXCEPT !.state = "raised"]
                  ELSE IF answer.net = "ok"
                       THEN [tried EXCEPT !.state = "returned"]
                       ELSE [tried EXCEPT !.state = "raised"]
    /\ UNCHANGED <<pc, req, loc, calls, obs, responses, bucket>>

\* one attempt of a store call: the bucket's client, not the session, makes
\* it; whether that client tries again after a failure is its own policy
StoreAttempt ==
    /\ wire.via = "storage_client"
    /\ wire.state = "open"
    /\ \E answer \in RawAnswers, again \in BOOLEAN :
          LET tried == [wire EXCEPT !.history = Append(@, answer)]
              failed == answer.net # "ok" \/ answer.code >= 400
          IN
          wire' = IF failed /\ again /\ Len(tried.history) < MaxStoreAttempts
                  THEN tried
                  ELSE IF failed THEN [tried EXCEPT !.state = "raised"]
                  ELSE [tried EXCEPT !.state = "returned"]
    /\ UNCHANGED <<pc, req, loc, calls, obs, responses, bucket>>

NextTransport ==
    \/ SessionAttempt
    \/ StoreAttempt

SpecTransport == InitTransport /\ [][NextTransport]_vars

-----------------------------------------------------------------------------
(* Vocabulary of the properties *)

Done(r) == pc[r] = "done"
Response(r) == responses[r][1]
HasPrompt(r) == req[r].content = "object" /\ "prompt" \in DOMAIN req[r].data
Answered(r, status, msg) ==
    responses[r] = <<[status |-> status, body |-> [error |-> msg]]>>
NoStoreCall(r) == calls[r].write = 0 /\ calls[r].make_public = 0
NoOutboundCall(r) ==
    /\ calls[r].submit = 0 /\ calls[r].status = 0 /\ calls[r].fetch = 0
    /\ NoStoreCall(r)

-----------------------------------------------------------------------------
(* C1: when the submission returned a job identifier and every status       *)
(* check was answered with a non-COMPLETE status or failed in transport,    *)
(* the handling makes 1 submission and, once over, exactly 10 status        *)
(* checks, never a fetch or a store call, and answers 500 "Image generation *)
(* failed".                                                                 *)
C1_PollExhausted ==
    \A r \in Requests :
        (obs[r].submit = "id" /\ obs[r].allChecksOpen) =>
            /\ calls[r].submit = 1
            /\ calls[r].status <= 10
            /\ calls[r].fetch = 0
            /\ calls[r].upload = 0
            /\ NoStoreCall(r)
            /\ Done(r) =>
                  /\ calls[r].status = 10
                  /\ Answered(r, 500, "Image generation failed")

C1_Witness ==
    \E r \in Requests :
        /\ Done(r) /\ obs[r].submit = "id" /\ obs[r].allChecksOpen
        /\ calls[r].status = 10 /\ obs[r].lastCheck = "error"

(* C2: a status answer COMPLETE whose first descriptor is flagged unsafe    *)
(* ends the handling at once with 500 "Image generation failed": nothing is *)
(* uploaded, and no sleep, status check, fetch or store call follows it,    *)
(* at any attempt and with any further descriptors.                         *)
C2_UnsafeStopsPolling ==
    /\ [](\A r \in Requests :
            obs[r].lastCheck = "unsafe" =>
                /\ Done(r)
                /\ Answered(r, 500, "Image generation failed")
                /\ calls[r].upload = 0
                /\ NoStoreCall(r))
    /\ [][\A r \in Requests :
            obs[r].lastCheck = "unsafe" =>
                calls'[r] = calls[r] /\ responses'[r] = responses[r]]_vars

C2_Witness ==
    \E r \in Requests :
        /\ obs[r].lastCheck = "unsafe"
        /\ loc[r].attempt = 4
        /\ calls[r].fetch = 2

(* C3: a request with no body or with no prompt key is answered 400         *)
(* "A prompt is required" and makes no outbound call.                       *)
C3_MissingPromptIs400 ==
    \A r \in Requests :
        (Done(r) /\ ~HasPrompt(r)) =>
            /\ Answered(r, 400, "A prompt is required")
            /\ NoOutboundCall(r)

(* C4: the submitted width is min(requested or 896, 900), the submitted     *)
(* height min(requested or 1192, 1536); a request with a prompt is          *)
(* submitted whatever its dimensions, never rejected for them.              *)
C4_Requested(r, key, default) ==
    IF key \in DOMAIN req[r].data THEN req[r].data[key] ELSE default

C4_Capped(v, max) == IF v > max THEN max ELSE v

C4_DimensionsClamped ==
    \A r \in Requests :
        /\ calls[r].submit > 0 =>
              /\ obs[r].payload.width = C4_Capped(C4_Requested(r, "width", 896), 900)
              /\ obs[r].payload.height = C4_Capped(C4_Requested(r, "height", 1192), 1536)
        /\ (Done(r) /\ HasPrompt(r)) =>
              /\ calls[r].submit = 1
              /\ Response(r).status # 400

C4_Witness ==
    \E r \in Requests :
        /\ calls[r].submit = 1
        /\ HasPrompt(r)
        /\ C4_Requested(r, "width", 896) = 5000
        /\ C4_Requested(r, "height", 1192) = 3000
        /\ obs[r].payload.width = 900
        /\ obs[r].payload.height = 1536

(* C5: whatever the provider and the store answer, generate_image and       *)
(* upload_to_gcs return a result or None and never raise, so a request with *)
(* a prompt is never answered "Unexpected server error".                    *)
C5_NoUnexpectedError ==
    \A r \in Requests :
        HasPrompt(r) =>
            /\ obs[r].generated # "raised"
            /\ Done(r) => Response(r).body # [error |-> "Unexpected server error"]

(* C6: a success answer carries the store's public URL of the object this   *)
(* request wrote, the caller's own prompt and not the augmented one, and    *)
(* the object was written with content type image/jpeg.                     *)
C6_SuccessPayload ==
    \A r \in Requests :
        (Done(r) /\ Response(r).status = 200) =>
            LET body == Response(r).body
                name == loc[r].blob_name
            IN
            /\ name \in BlobNames
            /\ bucket[name].exists
            /\ bucket[name].writer = r
            /\ bucket[name].content_type = "image/jpeg"
            /\ bucket[name].data = loc[r].generated_image.image_bytes
            /\ body.image_url = PublicUrl(name)
            /\ body.prompt = req[r].data.prompt
            /\ body.prompt # obs[r].payload.prompt

C6_Witness ==
    \E r \in Requests :
        /\ Done(r)
        /\ Response(r).status = 200
        /\ Response(r).body.prompt = "a red barn"

(* C7: no result from generate_image gives 500 "Image generation failed"    *)
(* and no store call; a result whose upload gives no URL gives 500 "Image   *)
(* upload failed"; neither message stands for the other case, and neither   *)
(* is sent when both steps succeed.                                         *)
C7_FailureMessages ==
    \A r \in Requests :
        Done(r) =>
            /\ obs[r].generated = "None" =>
                  /\ Answered(r, 500, "Image generation failed")
                  /\ calls[r].upload = 0
                  /\ NoStoreCall(r)
            /\ (obs[r].generated = "result" /\ obs[r].uploaded = "None") =>
                  Answered(r, 500, "Image upload failed")
            /\ (obs[r].generated = "result" /\ obs[r].uploaded = "url") =>
                  /\ Response(r).status = 200
                  /\ "error" \notin DOMAIN Response(r).body
            /\ Response(r).body = [error |-> "Image generation failed"] =>
                  obs[r].generated = "None"
            /\ Response(r).body = [error |-> "Image upload failed"] =>
                  /\ obs[r].generated = "result"
                  /\ obs[r].uploaded = "None"

C7_Witness ==
    \E r \in Requests :
        /\ Done(r)
        /\ obs[r].generated = "result"
        /\ calls[r].make_public = 1
        /\ Answered(r, 500, "Image upload failed")

(* C8, as stated: the outbound calls of a request come in the strict order  *)
(* submission, status checks, image fetch, store upload; no status check    *)
(* before the submission returned a job identifier, no fetch before a       *)
(* status answer COMPLETE with a safe descriptor and a URL, no store upload *)
(* before a successful fetch.                                               *)
C8_StrictOrder ==
    \A r \in Requests :
        /\ calls[r].status > 0 => (calls[r].submit = 1 /\ obs[r].submit = "id")
        /\ calls[r].fetch > 0 => obs[r].everReady
        /\ calls[r].write > 0 => obs[r].fetchOk
        /\ ~obs[r].statusAfterFetch

(* C8, amended: every status check follows the one submission that returned *)
(* a job identifier; every image fetch directly follows a status answer     *)
(* COMPLETE with a safe first descriptor and a URL; the store write follows *)
(* a successful fetch, make-public follows the write, and nothing is sent   *)
(* to the provider or the image host after a successful fetch.  A failed    *)
(* fetch is followed by further status checks and fetches.                  *)
C8_Step(r) ==
    /\ calls'[r].submit > calls[r].submit => calls[r] = CallsInit
    /\ calls'[r].status > calls[r].status =>
          /\ calls[r].submit = 1 /\ obs[r].submit = "id"
          /\ loc[r].generation_id \in GenerationIds
          /\ ~obs[r].fetchOk /\ NoStoreCall(r)
    /\ calls'[r].fetch > calls[r].fetch =>
          /\ obs[r].lastCheck = "ready"
          /\ calls[r].fetch < calls[r].status
          /\ ~obs[r].fetchOk /\ NoStoreCall(r)
    /\ calls'[r].write > calls[r].write => (obs[r].fetchOk /\ NoStoreCall(r))
    /\ calls'[r].make_public > calls[r].make_public =>
          (calls[r].write = 1 /\ calls[r].make_public = 0)

C8_CallOrder == [][\A r \in Requests : C8_Step(r)]_vars

C8_Witness ==
    \E r \in Requests :
        /\ obs[r].statusAfterFetch
        /\ calls[r].fetch = 2
        /\ calls[r].make_public = 1

(* C9, as stated: a request with a prompt makes the submission call exactly *)
(* once, and the store upload exactly once when generate_image gave a       *)
(* result and never otherwise.                                              *)
C9_UploadOncePerResult ==
    \A r \in Requests :
        (Done(r) /\ HasPrompt(r)) =>
            /\ calls[r].submit = 1
            /\ calls[r].write = IF obs[r].generated = "result" THEN 1 ELSE 0

(* C9, amended: a request with a prompt makes the submission call exactly   *)
(* once; upload_to_gcs runs exactly once when generate_image gave a result  *)
(* and never otherwise; the store write is made exactly once when that      *)
(* result carries non-empty image bytes and never otherwise.                *)
C9_NoRetryOutsidePolling ==
    \A r \in Requests :
        /\ calls[r].submit <= 1 /\ calls[r].upload <= 1
        /\ calls[r].write <= 1 /\ calls[r].make_public <= 1
        /\ (Done(r) /\ HasPrompt(r)) =>
              /\ calls[r].submit = 1
              /\ calls[r].upload = IF obs[r].generated = "result" THEN 1 ELSE 0
              /\ calls[r].write =
                    IF /\ obs[r].generated = "result"
                       /\ loc[r].generated_image.image_bytes # ""
                    THEN 1 ELSE 0

C9_Witness ==
    \E r \in Requests :
        /\ Done(r) /\ HasPrompt(r)
        /\ obs[r].generated = "result"
        /\ loc[r].generated_image.image_bytes = ""
        /\ calls[r].upload = 1 /\ calls[r].write = 0

(* C10: a request gets one response, sent when its handling ends: either    *)
(* the success payload (success, prompt, image_url) with status 200 or an   *)
(* error object with one of the four fixed messages; no response holds the  *)
(* provider's job identifier or any other field.                            *)
C10_ErrorMessages ==
    {"A prompt is required", "Image generation failed",
     "Image upload failed", "Unexpected server error"}

C10_OneFullResponse ==
    \A r \in Requests :
        /\ Len(responses[r]) = IF Done(r) THEN 1 ELSE 0
        /\ Done(r) =>
              LET body == Response(r).body IN
              \/ /\ DOMAIN body = {"error"}
                 /\ body.error \in C10_ErrorMessages
                 /\ Response(r).status = IF body.error = "A prompt is required"
                                         THEN 400 ELSE 500
              \/ /\ DOMAIN body = {"success", "prompt", "image_url"}
                 /\ body.success = TRUE
                 /\ Response(r).status = 200
                 /\ body.prompt \notin GenerationIds
                 /\ body.image_url \notin GenerationIds

C10_Witness ==
    \E r \in Requests :
        /\ Done(r)
        /\ loc[r].generation_id \in GenerationIds
        /\ calls[r].status = 10
        /\ Len(responses[r]) = 1

(* C13, as stated: at the end of a handling, bytes are attached to the      *)
(* generation result if and only if some status check reported COMPLETE     *)
(* with a first descriptor whose nsfw flag is false.                         *)
C13_HasBytes(r) ==
    /\ loc[r].generated_image \notin {Unset, NullJson}
    /\ "image_bytes" \in DOMAIN loc[r].generated_image

C13_SafeCompleteSeen(r) == obs[r].everReady \/ obs[r].lastCheck = "nourl"

C13_BytesIffCompleteSafe ==
    \A r \in Requests :
        Done(r) => (C13_HasBytes(r) <=> C13_SafeCompleteSeen(r))

(* C13, amended: bytes are attached only to a result whose status is        *)
(* COMPLETE, whose first descriptor is not flagged nsfw and has a URL, and   *)
(* whose image GET succeeded; every result the polling step returns carries *)
(* the bytes, and only such a result reaches the uploader. A COMPLETE, safe *)
(* answer alone does not attach bytes.                                      *)
C13_BytesOnlyAfterSafeFetch ==
    \A r \in Requests :
        /\ obs[r].generated = "result" <=> C13_HasBytes(r)
        /\ obs[r].fetchOk <=> C13_HasBytes(r)
        /\ calls[r].upload > 0 => C13_HasBytes(r)
        /\ C13_HasBytes(r) =>
              LET g == loc[r].generated_image
                  d == g.generated_images[1]
              IN
              /\ g.status = "COMPLETE"
              /\ ~("nsfw" \in DOMAIN d /\ d.nsfw)
              /\ "url" \in DOMAIN d /\ d.url # ""
              /\ obs[r].lastCheck = "ready"

C13_Witness ==
    \E r \in Requests :
        /\ Done(r)
        /\ C13_HasBytes(r)
        /\ loc[r].generated_image.image_bytes = "JPEGDATA"
        /\ calls[r].upload = 1

(* C14: a status check answered with a transport or HTTP error does not end *)
(* polling: the loop goes on to the next attempt unless the budget of 10 is *)
(* used up, the failed check counts against that budget, a handling never   *)
(* makes more than 10 status checks, and a later COMPLETE answer whose      *)
(* image is fetched still yields a result.                                  *)
C14_FailedCheckContinues ==
    \A r \in Requests :
        /\ calls[r].status <= 10
        /\ calls[r].status \in {loc[r].attempt, loc[r].attempt + 1}
        /\ obs[r].lastCheck = "error" =>
              IF calls[r].status < 10
              THEN pc[r] \in {"sleep", "status"} /\ responses[r] = <<>>
              ELSE Done(r) /\ Answered(r, 500, "Image generation failed")
        /\ (obs[r].checkFailed /\ obs[r].lastCheck = "ready" /\ obs[r].fetchOk) =>
              obs[r].generated = "result"

C14_Witness ==
    \E r \in Requests :
        /\ obs[r].checkFailed
        /\ calls[r].status = 10
        /\ obs[r].generated = "result"
        /\ Done(r)
        /\ Response(r).status = 200

(* C15: every status check directly follows exactly one wait of 10 seconds, *)
(* whatever the attempt number and whatever the previous check answered, so *)
(* the waits of a handling number its status checks and add up to 10        *)
(* seconds each, and no wait follows the last check.                        *)
C15_OneWaitPerCheck ==
    /\ [](\A r \in Requests :
            /\ calls[r].slept = 10 * calls[r].sleep
            /\ calls[r].sleep \in {calls[r].status, calls[r].status + 1}
            /\ pc[r] = "status" <=> calls[r].sleep = calls[r].status + 1
            /\ Done(r) => calls[r].sleep = calls[r].status)
    /\ [][\A r \in Requests :
            /\ calls'[r].status # calls[r].status =>
                  /\ calls[r].sleep = calls[r].status + 1
                  /\ calls'[r].sleep = calls[r].sleep
            /\ calls'[r].sleep # calls[r].sleep =>
                  /\ calls'[r].sleep = calls[r].sleep + 1
                  /\ calls'[r].slept = calls[r].slept + 10
                  /\ calls'[r].status = calls[r].status
                  /\ pc'[r] = "status"]_vars

C15_Witness ==
    \E r \in Requests :
        /\ Done(r)
        /\ obs[r].checkFailed
        /\ calls[r].status = 3
        /\ calls[r].sleep = 3
        /\ calls[r].slept = 30

(* C16: a submission that fails at the transport level, is answered with an *)
(* error status, or is answered without a job identifier makes              *)
(* generate_image return None without raising: no wait, status check, fetch *)
(* or upload follows and the endpoint answers 500 "Image generation         *)
(* failed".                                                                 *)
C16_SubmitFailureIsGenerationFailed ==
    \A r \in Requests :
        (obs[r].submit \in {"error", "noid", "malformed"}) =>
            /\ obs[r].jobId = None
            /\ obs[r].generated = "None"
            /\ Done(r)
            /\ Answered(r, 500, "Image generation failed")
            /\ calls[r].sleep = 0
            /\ calls[r].status = 0
            /\ calls[r].fetch = 0
            /\ calls[r].upload = 0
            /\ NoStoreCall(r)

(* C17, as stated: a handling makes at most one image GET, and after that   *)
(* GET polling has ended with a result and no status check follows it.      *)
C17_AtMostOneFetch ==
    \A r \in Requests :
        /\ calls[r].fetch <= 1
        /\ calls[r].fetch = 1 =>
              obs[r].generated = "result" /\ ~obs[r].statusAfterFetch

(* C17, amended: each status check answered COMPLETE with a safe first      *)
(* descriptor that has a URL is followed by exactly one image GET in that   *)
(* attempt; once an image GET succeeded polling has ended with the result   *)
(* and no wait, status check or image GET follows; a failed image GET sends *)
(* the loop to its next attempt, so a handling makes at most one image GET  *)
(* per status check and at most 10 in all.                                  *)
C17_FetchPerReadyAnswer ==
    /\ [](\A r \in Requests :
            /\ calls[r].fetch <= calls[r].status
            /\ calls[r].status <= 10
            /\ pc[r] = "fetch" =>
                  obs[r].lastCheck = "ready" /\ calls[r].fetch < calls[r].status
            /\ obs[r].fetchOk =>
                  /\ obs[r].generated = "result"
                  /\ pc[r] \in {"upload", "publish", "done"})
    /\ [][\A r \in Requests :
            /\ calls'[r].fetch # calls[r].fetch =>
                  pc[r] = "fetch" /\ calls'[r].fetch = calls[r].fetch + 1
            /\ (calls'[r].status # calls[r].status /\ obs'[r].lastCheck = "ready") =>
                  pc'[r] = "fetch"
            /\ (pc[r] = "fetch" /\ calls'[r] # calls[r]) =>
                  calls'[r] = [calls[r] EXCEPT !.fetch = @ + 1]
            /\ obs[r].fetchOk =>
                  /\ calls'[r].fetch = calls[r].fetch
                  /\ calls'[r].status = calls[r].status
                  /\ calls'[r].sleep = calls[r].sleep]_vars

C17_Witness ==
    \E r \in Requests :
        /\ Done(r)
        /\ calls[r].fetch = 2
        /\ obs[r].fetchOk
        /\ obs[r].statusAfterFetch
        /\ Response(r).status = 200

(* C18: a status check answered COMPLETE whose first descriptor is not      *)
(* flagged nsfw but has no URL, absent or empty, ends polling at that       *)
(* attempt as the unsafe case does: no image GET for it, no further wait or *)
(* status check, no upload, no result, 500 "Image generation failed".       *)
C18_NoUrlStopsPolling ==
    /\ [](\A r \in Requests :
            obs[r].lastCheck = "nourl" =>
                /\ Done(r)
                /\ obs[r].generated = "None"
                /\ Answered(r, 500, "Image generation failed")
                /\ calls[r].fetch < calls[r].status
                /\ calls[r].sleep = calls[r].status
                /\ calls[r].upload = 0
                /\ NoStoreCall(r))
    /\ [][\A r \in Requests :
            obs[r].lastCheck = "nourl" =>
                calls'[r] = calls[r] /\ responses'[r] = responses[r]]_vars

C18_Witness ==
    \E r \in Requests :
        /\ obs[r].lastCheck = "nourl"
        /\ calls[r].status = 2
        /\ Done(r)

(* C20: upload_to_gcs returns the public URL only after the object write    *)
(* and then make_public both succeeded, in that order; when the write       *)
(* succeeded and make_public fails the endpoint answers 500 "Image upload   *)
(* failed" and the written object stays in the store; empty image bytes are *)
(* treated as missing bytes and no store call is made.                      *)
C20_PublishAfterWrite ==
    /\ [](\A r \in Requests :
            /\ obs[r].uploaded = "url" =>
                  /\ calls[r].write = 1
                  /\ calls[r].make_public = 1
                  /\ loc[r].blob_name \in BlobNames
                  /\ bucket[loc[r].blob_name].exists
                  /\ bucket[loc[r].blob_name].public
                  /\ loc[r].public_url = PublicUrl(loc[r].blob_name)
            /\ calls[r].make_public > 0 =>
                  calls[r].write = 1 /\ loc[r].blob_name \in BlobNames
            /\ (calls[r].make_public = 1 /\ obs[r].uploaded = "None") =>
                  /\ Done(r)
                  /\ Answered(r, 500, "Image upload failed")
                  /\ bucket[loc[r].blob_name].exists
                  /\ bucket[loc[r].blob_name].data =
                         loc[r].generated_image.image_bytes
            /\ (C13_HasBytes(r) /\ calls[r].upload > 0) =>
                  (loc[r].generated_image.image_bytes = "" =>
                      /\ NoStoreCall(r)
                      /\ Done(r)
                      /\ Answered(r, 500, "Image upload failed")))
    /\ [][/\ \A n \in BlobNames : bucket[n].exists => bucket'[n].exists
          /\ \A r \in Requests :
                calls'[r].make_public # calls[r].make_public =>
                    /\ calls[r].write = 1
                    /\ calls'[r].write = 1
                    /\ bucket[loc[r].blob_name].exists]_vars

C20_Witness ==
    \E r \in Requests :
        /\ Done(r)
        /\ calls[r].write = 1
        /\ calls[r].make_public = 1
        /\ obs[r].uploaded = "None"
        /\ bucket[loc[r].blob_name].exists
        /\ ~bucket[loc[r].blob_name].public

(* C12, as stated: no two uploads, sequential or concurrent, use the same   *)
(* object name, so every written object still holds what its own request   *)
(* wrote.                                                                   *)
C12_Wrote(r) == loc[r].blob_name \in BlobNames

C12_NoSharedName ==
    \A r \in Requests :
        C12_Wrote(r) =>
            /\ \A q \in Requests \ {r} :
                  C12_Wrote(q) => loc[q].blob_name # loc[r].blob_name
            /\ bucket[loc[r].blob_name].writer = r

(* C12, amended: the object name is the folder, the second-precision        *)
(* timestamp, "_", the 8-character random suffix and ".jpg"; two uploads    *)
(* get the same name exactly when they draw the same timestamp and the same *)
(* suffix, and then the later write replaces the earlier object; uploads    *)
(* that differ in timestamp or suffix never touch each other's object.      *)
C12_NamesCollideOnlyOnEqualDraws ==
    \A r \in Requests :
        C12_Wrote(r) =>
            /\ loc[r].blob_name =
                  "images/" \o obs[r].stamp \o "_" \o obs[r].suffix \o ".jpg"
            /\ bucket[loc[r].blob_name].exists
            /\ \A q \in Requests \ {r} :
                  C12_Wrote(q) =>
                      (loc[q].blob_name = loc[r].blob_name
                          <=> /\ obs[q].stamp = obs[r].stamp
                              /\ obs[q].suffix = obs[r].suffix)
            /\ (\A q \in Requests \ {r} :
                    C12_Wrote(q) => \/ obs[q].stamp # obs[r].stamp
                                    \/ obs[q].suffix # obs[r].suffix) =>
                  /\ bucket[loc[r].blob_name].writer = r
                  /\ bucket[loc[r].blob_name].data =
                         loc[r].generated_image.image_bytes

C12_Witness ==
    /\ C12_Wrote(1) /\ C12_Wrote(2)
    /\ obs[1].stamp = obs[2].stamp
    /\ obs[1].suffix # obs[2].suffix
    /\ bucket[loc[1].blob_name].writer = 1
    /\ bucket[loc[2].blob_name].writer = 2
    /\ Done(1) /\ Done(2)

(* C19: under every interleaving of two handlings that share the generator  *)
(* object, a handling polls only the job identifier its own submission was  *)
(* given and no other handling polls that identifier; its attempt counter   *)
(* counts its own status checks only; a step of one handling leaves the     *)
(* other's locals, counters and response alone; and its response is         *)
(* determined by the answers to its own calls.                              *)
C19_OwnResponse(r) ==
    IF obs[r].submit = "error" \/ obs[r].lastCheck = "unsafe"
       \/ (obs[r].allChecksOpen /\ calls[r].status = 10)
    THEN [status |-> 500, body |-> [error |-> "Image generation failed"]]
    ELSE IF obs[r].uploaded = "None"
    THEN [status |-> 500, body |-> [error |-> "Image upload failed"]]
    ELSE [status |-> 200,
          body |-> [success |-> TRUE,
                    image_url |->
                      "https://storage.googleapis.com/bucket/images/"
                        \o obs[r].stamp \o "_" \o obs[r].suffix \o ".jpg",
                    prompt |-> ConcPrompt(r)]]

C19_Private(r) == <<pc[r], loc[r], calls[r], obs[r], responses[r]>>

C19_Independent ==
    /\ [](\A r \in Requests :
            /\ calls[r].status > 0 =>
                  /\ obs[r].jobId \in GenerationIds
                  /\ obs[r].polled = obs[r].jobId
                  /\ \A q \in Requests \ {r} : obs[q].polled # obs[r].polled
            /\ calls[r].status \in {loc[r].attempt, loc[r].attempt + 1}
            /\ Done(r) => responses[r] = <<C19_OwnResponse(r)>>)
    /\ [][\A r \in Requests :
            C19_Private(r)' # C19_Private(r) =>
                \A q \in Requests \ {r} : C19_Private(q)' = C19_Private(q)]_vars

C19_Witness ==
    /\ pc[1] = "status" /\ pc[2] = "status"
    /\ loc[1].attempt = 3 /\ loc[2].attempt = 1
    /\ obs[1].polled = "gen-2" /\ obs[2].polled = "gen-1"

(* C11, as stated: every outbound call, the store upload included, is under *)
(* one retry policy: an attempt answered 500, 502, 503 or 504 is retried,   *)
(* and a call is attempted at most 3 times before its failure is reported.  *)
C11_Attempts == Len(wire.history)

C11_LastIsForcelisted ==
    /\ C11_Attempts > 0
    /\ wire.history[C11_Attempts].net = "ok"
    /\ wire.history[C11_Attempts].code \in {500, 502, 503, 504}

C11_UniformThreeAttempts ==
    /\ C11_Attempts <= 3
    /\ C11_LastIsForcelisted =>
          IF C11_Attempts < 3 THEN wire.state = "open" ELSE wire.state # "open"

(* C11, amended: the status GET and an image GET of an https URL are retried *)
(* on 500, 502, 503 and 504 up to 3 times, that is 4 attempts in all, and   *)
(* then raise; the submission POST is not retried on these statuses, the    *)
(* response goes to the caller after the one attempt (only a failed         *)
(* connection is retried for it); an image GET of an http URL is never      *)
(* retried; no session call is attempted more than 4 times; the store       *)
(* upload does not go through the session and its retry policy.             *)
C11_RetryPolicy ==
    /\ wire.kind = "store" <=> wire.via = "storage_client"
    /\ wire.via = "session" =>
          /\ C11_Attempts <= 4
          /\ wire.total + C11_Attempts <= 4
          /\ wire.state = "open" => wire.total + C11_Attempts = AdapterRetries(wire.scheme)
          /\ (wire.method = "GET" /\ wire.scheme = "https" /\ C11_LastIsForcelisted) =>
                IF C11_Attempts < 4 THEN wire.state = "open" ELSE wire.state = "raised"
          /\ (wire.method = "POST" /\ C11_LastIsForcelisted) =>
                wire.state = "returned"
          /\ (wire.method = "POST" /\ C11_Attempts > 1) =>
                \A i \in 1..(C11_Attempts - 1) : wire.history[i].net = "connect_error"
          /\ (wire.scheme = "http" /\ C11_Attempts > 0) =>
                C11_Attempts = 1 /\ wire.state # "open"

C11_Witness ==
    /\ wire.kind = "status"
    /\ wire.state = "raised"
    /\ C11_Attempts = 4
    /\ \A i \in 1..4 : wire.history[i] = [net |-> "ok", code |-> 503]

====
